---- MODULE Spec2Model ----
(***************************************************************************)
(* A model of the trail recommendation service of src/main.py: the JSON    *)
(* cleaning of generated text, the recommend_trail pipeline and the two    *)
(* map helpers (point geocoding of labels, walking directions).            *)
(*                                                                         *)
(* Texts are sequences of one-character strings, so that prefix, suffix,   *)
(* find, slice and strip are computed as Python computes them.             *)
(***************************************************************************)
EXTENDS Integers, Sequences, FiniteSets, TLC

VARIABLES
    text,           \* clean_json_response: the argument of the first call
    once,           \* clean_json_response(text)
    twice,          \* clean_json_response(clean_json_response(text))
    cpc,            \* position of the cleaning run: "idle", "start", "once", "twice"
    entry,          \* the function that was called: recommend_trail or a map helper
    pc,             \* position inside the called function
    trail_name,     \* recommend_trail: trail_name (line 261)
    detail,         \* recommend_trail: detail (line 265)
    start_location, \* get_trail_waypoints_from_gemini: start_location (lines 95-100)
    response,       \* get_trail_waypoints_from_gemini: what the local name response is bound to
    waypoints,      \* the waypoint labels (line 266, or the argument of a map helper)
    coordinates,    \* get_coordinates_for_waypoints: coordinates (line 231)
    result,         \* the value the called function returned
    exception,      \* the exception that escaped the called function, or "none"
    calls,          \* the provider calls issued so far, in order, with their outcome
    failed,         \* some provider call so far did not succeed
    directions      \* the route the directions provider is stubbed to answer with

cleanVars == <<text, once, twice, cpc>>

callVars ==
    <<entry, pc, trail_name, detail, start_location, response, waypoints,
      coordinates, result, exception, calls, failed, directions>>

vars == <<cleanVars, callVars>>

----------------------------------------------------------------------------
(* Bounds *)

\* longest free-form body of a generated text
MaxLen == 3

----------------------------------------------------------------------------
(* Python string primitives on sequences of characters *)

\* str.strip() with no argument removes leading and trailing whitespace
Whitespace == {" ", "\n", "\t"}

\* text.startswith(prefix)
StartsWith(t, p) == Len(t) >= Len(p) /\ SubSeq(t, 1, Len(p)) = p

\* text.endswith(suffix)
EndsWith(t, p) == Len(t) >= Len(p) /\ SubSeq(t, Len(t) - Len(p) + 1, Len(t)) = p

\* text[start:end] for 0 <= start and 0 <= end <= len(text); empty when end <= start
Slice(t, start, end) == SubSeq(t, start + 1, end)

\* text.find(c): the 0-based index of the first c, or -1
RECURSIVE FindFrom(_, _, _)
FindFrom(t, c, i) ==
    IF i > Len(t) THEN -1
    ELSE IF t[i] = c THEN i - 1
    ELSE FindFrom(t, c, i + 1)

find(t, c) == FindFrom(t, c, 1)

\* text.rfind(c): the 0-based index of the last c, or -1
RECURSIVE RFindFrom(_, _, _)
RFindFrom(t, c, i) ==
    IF i < 1 THEN -1
    ELSE IF t[i] = c THEN i - 1
    ELSE RFindFrom(t, c, i - 1)

rfind(t, c) == RFindFrom(t, c, Len(t))

RECURSIVE lstrip(_)
lstrip(t) ==
    IF t # <<>> /\ t[1] \in Whitespace THEN lstrip(Tail(t)) ELSE t

RECURSIVE rstrip(_)
rstrip(t) ==
    IF t # <<>> /\ t[Len(t)] \in Whitespace THEN rstrip(SubSeq(t, 1, Len(t) - 1)) ELSE t

strip(t) == rstrip(lstrip(t))

----------------------------------------------------------------------------
(* clean_json_response *)

\* the backquote character (a string literal cannot hold it)
Tick == "TICK"

Fence == <<Tick, Tick, Tick>>

FenceJson == Fence \o <<"j", "s", "o", "n">>

\* line 48 as an elif of line 46: at most one leading fence is removed
clean_json_response_elif(txt) ==
    LET t2 == IF StartsWith(txt, FenceJson) THEN Slice(txt, 7, Len(txt))
              ELSE IF StartsWith(txt, Fence) THEN Slice(txt, 3, Len(txt))
              ELSE txt
        t3 == IF EndsWith(t2, Fence) THEN Slice(t2, 0, Len(t2) - 3) ELSE t2
        start == find(t3, "{")
        end == rfind(t3, "}") + 1
        t4 == IF start # -1 /\ end # 0 THEN Slice(t3, start, end) ELSE t3
    IN  strip(t4)

\* the slice end of line 55 taken one character short (rfind without the + 1)
clean_json_response_short(txt) ==
    LET t1 == IF StartsWith(txt, FenceJson) THEN Slice(txt, 7, Len(txt)) ELSE txt
        t2 == IF StartsWith(t1, Fence) THEN Slice(t1, 3, Len(t1)) ELSE t1
        t3 == IF EndsWith(t2, Fence) THEN Slice(t2, 0, Len(t2) - 3) ELSE t2
        start == find(t3, "{")
        end == rfind(t3, "}")
        t4 == IF start # -1 /\ end # -1 THEN Slice(t3, start, end) ELSE t3
    IN  strip(t4)

clean_json_response(txt) ==
    LET t1 == IF StartsWith(txt, FenceJson) THEN Slice(txt, 7, Len(txt)) ELSE txt
        t2 == IF StartsWith(t1, Fence) THEN Slice(t1, 3, Len(t1)) ELSE t1
        t3 == IF EndsWith(t2, Fence) THEN Slice(t2, 0, Len(t2) - 3) ELSE t2
        start == find(t3, "{")
        end == rfind(t3, "}") + 1
        t4 == IF start # -1 /\ end # 0 THEN Slice(t3, start, end) ELSE t3
    IN  strip(t4)

----------------------------------------------------------------------------
(* Inputs of the cleaning runs *)

Alphabet == {Tick, "{", "}", " ", "\n", "a"}

Bodies == UNION {[1..n -> Alphabet] : n \in 0..MaxLen}

LeadWraps == {<<>>, Fence, FenceJson, FenceJson \o <<"\n">>, FenceJson \o Fence}

TrailWraps == {<<>>, Fence, <<"\n">> \o Fence}

\* the fenced text: fence, json, newline, {"a":1}, newline, fence
ExampleInput ==
    FenceJson \o <<"\n", "{", "\"", "a", "\"", ":", "1", "}", "\n">> \o Fence

\* {"a":1}
ExampleOutput == <<"{", "\"", "a", "\"", ":", "1", "}">>

CleanInputs ==
    {p \o b \o s : p \in LeadWraps, b \in Bodies, s \in TrailWraps} \cup {ExampleInput}

----------------------------------------------------------------------------
(* The cleaning run: clean_json_response applied once, then to its own result *)

\* no function of the service is running
NoCall ==
    /\ entry = "none"
    /\ pc = "idle"
    /\ trail_name = <<>>
    /\ detail = <<>>
    /\ start_location = ""
    /\ response = [type |-> "unbound", candidates |-> <<>>]
    /\ waypoints = <<>>
    /\ coordinates = <<>>
    /\ result = [pending |-> TRUE]
    /\ exception = "none"
    /\ calls = <<>>
    /\ failed = FALSE
    /\ directions = <<>>

InitClean ==
    /\ text \in CleanInputs
    /\ once = <<>>
    /\ twice = <<>>
    /\ cpc = "start"
    /\ NoCall

CleanOnce ==
    /\ cpc = "start"
    /\ once' = clean_json_response(text)
    /\ cpc' = "once"
    /\ UNCHANGED <<text, twice, callVars>>

CleanTwice ==
    /\ cpc = "once"
    /\ twice' = clean_json_response(once)
    /\ cpc' = "twice"
    /\ UNCHANGED <<text, once, callVars>>

NextClean == CleanOnce \/ CleanTwice

SpecClean == InitClean /\ [][NextClean]_vars

----------------------------------------------------------------------------
(* clean_json_response: what the cleaning is required to return *)

Positions(u, c) == {i \in 1..Len(u) : u[i] = c}

Least(S) == CHOOSE i \in S : \A j \in S : i <= j

Greatest(S) == CHOOSE i \in S : \A j \in S : j <= i

\* u without its leading and trailing whitespace
Trimmed(u) ==
    LET solid == {i \in 1..Len(u) : u[i] \notin Whitespace}
    IN  IF solid = {} THEN <<>> ELSE SubSeq(u, Least(solid), Greatest(solid))

\* x without its first lead characters and without a trailing fence
Unfenced(x, lead) ==
    LET u == SubSeq(x, lead + 1, Len(x))
    IN  IF EndsWith(u, Fence) THEN SubSeq(u, 1, Len(u) - 3) ELSE u

\* the span from the first opening brace to the last closing brace of the unfenced
\* text (empty when the last closing brace comes first), else the trimmed text
Extracted(x, lead) ==
    LET u == Unfenced(x, lead)
        opens == Positions(u, "{")
        closes == Positions(u, "}")
    IN  IF opens # {} /\ closes # {}
        THEN SubSeq(u, Least(opens), Greatest(closes))
        ELSE Trimmed(u)

\* one leading fence is removed: the json fence, else the plain fence
LeadOneFence(x) ==
    IF StartsWith(x, FenceJson) THEN Len(FenceJson)
    ELSE IF StartsWith(x, Fence) THEN Len(Fence)
    ELSE 0

\* a plain fence that follows the json fence is removed with it
LeadBothFences(x) ==
    IF StartsWith(x, FenceJson \o Fence) THEN Len(FenceJson) + Len(Fence)
    ELSE LeadOneFence(x)

\* x holds an opening brace with a closing brace after it
HasJsonObject(x) ==
    \E i, j \in 1..Len(x) : i < j /\ x[i] = "{" /\ x[j] = "}"

\* C5: clean_json_response is idempotent on every text that holds a JSON object
\* (an opening brace with a closing brace after it), fenced or not, with or
\* without prose around it: cleaning the cleaned text changes nothing.
C5_Idempotent ==
    (cpc = "twice" /\ HasJsonObject(text)) => twice = once

C5_Witness ==
    /\ cpc = "twice"
    /\ HasJsonObject(text)
    /\ StartsWith(text, FenceJson)
    /\ EndsWith(text, Fence)
    /\ Len(once) < Len(text) - Len(FenceJson) - Len(Fence)
    /\ twice = once

\* C6 as amended: the json fence and then a plain fence are removed from the
\* front, a fence from the back; with both braces present the result is the
\* span from the first opening to the last closing brace (empty when the
\* closing brace comes first), else the trimmed remaining text. The fenced
\* example {"a":1} comes out bare.
C6_Extraction ==
    cpc # "start" =>
        /\ once = Extracted(text, LeadBothFences(text))
        /\ text = ExampleInput => once = ExampleOutput

C6_Witness ==
    /\ cpc = "once"
    /\ StartsWith(text, FenceJson \o Fence)
    /\ Positions(text, "{") = {}
    /\ once # <<>>
    /\ once = Trimmed(Unfenced(text, Len(FenceJson) + Len(Fence)))

\* C6 as claimed: only one leading fence is removed (the json fence, else the
\* plain fence) before the span or the trimmed remaining text is returned.
C6_AsClaimed ==
    cpc # "start" => once = Extracted(text, LeadOneFence(text))

----------------------------------------------------------------------------
(* Bounds of the calls *)

\* most labels in a waypoint list
MaxWaypoints == 3

\* most legs of a stubbed route
MaxLegs == 2

\* most steps of a leg of a stubbed route
MaxSteps == 2

----------------------------------------------------------------------------
(* Texts the generation provider is stubbed to answer with *)

\* the failure value of get_trail_name_from_gemini (line 42)
Sentinel ==
    <<"R", "e", "c", "o", "m", "m", "e", "n", "d", "a", "t", "i", "o", "n", " ",
      "f", "a", "i", "l", "e", "d">>

ParkTrail ==
    <<"2", "k", "m", " ", "P", "a", "r", "k">>

\* what the naming prompt may be answered with: a name, bare or padded with
\* whitespace, blank text, and the words of the failure value themselves
NameTexts ==
    { ParkTrail, <<" ">> \o ParkTrail \o <<"\n">>, <<"T">>, <<>>, <<" ", "\n">>,
      Sentinel, <<"\n">> \o Sentinel \o <<" ">> }

Labels == <<"A", "B", "C">>

LabelSet == {Labels[i] : i \in 1..Len(Labels)}

\* every waypoint list of at most MaxWaypoints labels
LabelLists == UNION {[1..n -> LabelSet] : n \in 0..MaxWaypoints}

\* the closed walk of n labels: A, B, C, A, ...
Walk(n) == [i \in 1..n |-> Labels[((i - 1) % Len(Labels)) + 1]]

Quoted(w) == <<"\"">> \o w \o <<"\"">>

RECURSIVE QuotedList(_)
QuotedList(ls) ==
    IF ls = <<>> THEN <<>>
    ELSE IF Len(ls) = 1 THEN Quoted(<<ls[1]>>)
    ELSE Quoted(<<ls[1]>>) \o <<",">> \o QuotedList(Tail(ls))

WaypointsKey ==
    <<"w", "a", "y", "p", "o", "i", "n", "t", "s">>

\* the JSON object {"waypoints":["A","B"]} for the labels A, B
WaypointsJson(ls) ==
    <<"{">> \o Quoted(WaypointsKey) \o <<":", "[">> \o QuotedList(ls) \o <<"]", "}">>

\* the JSON object of a trail detail
DetailJson ==
    <<"{", "\"", "t", "r", "a", "i", "l", "_", "n", "a", "m", "e", "\"", ":", "\"",
      "T", "\"", ",", "\"", "m", "a", "i", "n", "_", "f", "e", "a", "t", "u", "r",
      "e", "s", "\"", ":", "\"", "f", "\"", ",", "\"", "e", "s", "t", "i", "m",
      "a", "t", "e", "d", "_", "t", "i", "m", "e", "\"", ":", "\"", "t", "\"", ",",
      "\"", "r", "o", "u", "t", "e", "_", "g", "u", "i", "d", "e", "\"", ":", "\"",
      "g", "\"", "}">>

DetailValue ==
    [trail_name |-> "T", main_features |-> "f", estimated_time |-> "t", route_guide |-> "g"]

Prose == <<"H", "e", "r", "e", ":", "\n">>

\* a JSON text as the provider may send it: bare, fenced, inside prose, cut short
Dressed(json) ==
    { json,
      FenceJson \o <<"\n">> \o json \o <<"\n">> \o Fence,
      Prose \o json \o <<"\n">>,
      SubSeq(json, 1, Len(json) - 1) }

DetailTexts == Dressed(DetailJson) \cup {<<"{", "}">>, Prose}

WaypointTexts ==
    UNION {Dressed(WaypointsJson(Walk(n))) : n \in 0..MaxWaypoints}
        \cup {<<"{", "}">>, Prose}

\* json.loads on the texts above: the parsed object, or a parse error
JsonLoads(t) ==
    IF t = DetailJson THEN [ok |-> TRUE, value |-> DetailValue]
    ELSE IF t = <<"{", "}">> THEN [ok |-> TRUE, value |-> <<>>]
    ELSE IF \E ls \in LabelLists : t = WaypointsJson(ls)
        THEN [ok |-> TRUE,
              value |-> [waypoints |-> CHOOSE ls \in LabelLists : t = WaypointsJson(ls)]]
    ELSE [ok |-> FALSE, value |-> <<>>]

\* model.generate_content(prompt): a network error, a response with no candidate,
\* or a response whose first candidate holds one of the texts
GenerateContent(texts) ==
    {[kind |-> "raised", candidates |-> <<>>], [kind |-> "response", candidates |-> <<>>]}
        \cup {[kind |-> "response", candidates |-> <<t>>] : t \in texts}

----------------------------------------------------------------------------
(* Answers the mapping provider is stubbed with *)

\* the address the key verification asks for (line 150)
KeyCheckAddress == "Seoul Station, Seoul, South Korea"

\* the stubbed position of an address
Location(address) ==
    IF address \in LabelSet
    THEN LET k == CHOOSE i \in 1..Len(Labels) : Labels[i] = address
         IN  [lat |-> 30 + k, lng |-> 120 + k]
    ELSE [lat |-> 37, lng |-> 126]

Raised == [kind |-> "raised", data |-> <<>>]

NotJson == [kind |-> "not_json", data |-> <<>>]

Json(data) == [kind |-> "json", data |-> data]

\* what the log keeps of an answer: its status, or how the request failed
StatusOf(r) == IF r.kind = "json" THEN r.data.status ELSE r.kind

\* and how many results (or routes) it holds
Found(r) ==
    IF r.kind # "json" THEN 0
    ELSE IF "results" \in DOMAIN r.data THEN Len(r.data.results)
    ELSE Len(r.data.routes)

\* requests.get on the geocoding endpoint with an address: a network error, a body
\* that is no JSON, an error status, a success with no result, a success
GeocodeAnswers(address) ==
    { Raised, NotJson,
      Json([status |-> "REQUEST_DENIED", results |-> <<>>]),
      Json([status |-> "ZERO_RESULTS", results |-> <<>>]),
      Json([status |-> "OK", results |-> <<>>]),
      Json([status |-> "OK",
            results |-> <<[formatted_address |-> address,
                           geometry |-> [location |-> Location(address)]]>>]) }

\* requests.get on the geocoding endpoint with the origin's latlng
ReverseGeocodeAnswers ==
    { Raised, NotJson,
      Json([status |-> "REQUEST_DENIED", results |-> <<>>]),
      Json([status |-> "OK", results |-> <<>>]),
      Json([status |-> "OK",
            results |-> <<[formatted_address |-> "Seoul City Hall",
                           geometry |-> [location |-> Location("origin")]]>>]) }

\* the legs of a stubbed route: leg i has shape[i] steps, step j of leg i runs
\* from (lat 10i+j, lng 100+10i+j) to the start of the next step
StubLegs(shape) ==
    [i \in 1..Len(shape) |->
        [steps |->
            [j \in 1..shape[i] |->
                [start_location |-> [lat |-> 10 * i + j, lng |-> 100 + 10 * i + j],
                 end_location |-> [lat |-> 10 * i + j + 1, lng |-> 100 + 10 * i + j + 1]]]]]

\* the routes recommend_trail's directions stub may hold: 1..MaxLegs full legs
RecommendStubRoutes ==
    {StubLegs([i \in 1..k |-> MaxSteps]) : k \in 1..MaxLegs}

\* the stubbed routes: at most MaxLegs legs of at most MaxSteps steps each
StubRoutes ==
    {StubLegs(shape) : shape \in UNION {[1..k -> 0..MaxSteps] : k \in 0..MaxLegs}}

\* requests.get on the directions endpoint, stubbed with the route of these legs
DirectionsAnswers(legs) ==
    { Raised, NotJson,
      Json([status |-> "NOT_FOUND", routes |-> <<>>]),
      Json([status |-> "OK", routes |-> <<>>]),
      Json([status |-> "OK", routes |-> <<[legs |-> legs]>>]) }

----------------------------------------------------------------------------
(* The functions of src/main.py *)

\* lines 35-42: the stripped text of the first candidate, or the failure value
get_trail_name_from_gemini(r) ==
    IF r.kind = "raised" \/ r.candidates = <<>> THEN Sentinel
    ELSE strip(r.candidates[1])

\* lines 72-79: the parsed object of the cleaned text, or the empty mapping
get_trail_detail_from_gemini(r) ==
    IF r.kind = "raised" \/ r.candidates = <<>> THEN <<>>
    ELSE LET parsed == JsonLoads(clean_json_response(r.candidates[1]))
         IN  IF parsed.ok THEN parsed.value ELSE <<>>

\* dict.get(key, default) of line 136, for the key waypoints
GetWaypoints(object) ==
    IF "waypoints" \in DOMAIN object THEN object.waypoints ELSE <<>>

\* lines 91-100: the first result's address on status OK, else the fallback label
ReverseGeocoded(r) ==
    IF r.kind = "json" /\ r.data.status = "OK" /\ r.data.results # <<>>
    THEN r.data.results[1].formatted_address
    ELSE "Starting Point"

\* what the name response is bound to after requests.get of line 92
BoundByGet(before, r) ==
    IF r.kind = "raised" THEN before ELSE [type |-> "http", candidates |-> <<>>]

\* what the name response is bound to after generate_content of line 133
BoundByGenerate(before, r) ==
    IF r.kind = "raised" THEN before
    ELSE [type |-> "generation", candidates |-> r.candidates]

\* line 139, inside the except block, evaluates response.candidates[0]: the
\* exception it raises, "none" when the expression has a value
RawResponseError(bound) ==
    IF bound.type = "unbound" THEN "UnboundLocalError"
    ELSE IF bound.type = "http" THEN "AttributeError"
    ELSE IF bound.candidates = <<>> THEN "IndexError"
    ELSE "none"

\* lines 132-140: the try block and its handler
WaypointsFromGeneration(before, r) ==
    LET bound == BoundByGenerate(before, r)
        parsed == IF r.kind = "response" /\ r.candidates # <<>>
                  THEN JsonLoads(clean_json_response(r.candidates[1]))
                  ELSE [ok |-> FALSE, value |-> <<>>]
    IN  IF parsed.ok
        THEN [response |-> bound, exception |-> "none", value |-> GetWaypoints(parsed.value)]
        ELSE [response |-> bound, exception |-> RawResponseError(bound), value |-> <<>>]

\* lines 245-247: a geocoding answer holds a position
Geocoded(r) == r.kind = "json" /\ r.data.status = "OK" /\ r.data.results # <<>>

\* line 247 with the pair the other way round
GeocodePointLatFirst(location) == <<location.lat, location.lng>>

\* line 247: [lng, lat]
GeocodePoint(location) == <<location.lng, location.lat>>

\* a failure that returns what was collected so far
CoordinatesOnFailureSoFar(collected) == collected

\* lines 252 and 255: what a failed geocoding request makes the function return
CoordinatesOnFailure(collected) == <<>>

\* lines 194-195 with the pair the other way round
StepPointLatFirst(location) == <<location.lat, location.lng>>

\* lines 194-195: [lng, lat]
StepPoint(location) == <<location.lng, location.lat>>

\* a failed request asked again: the loop goes on with the same label
GeocodeStepRetrying(collected, r) ==
    IF Geocoded(r)
    THEN [returns |-> FALSE,
          coordinates |-> Append(collected, GeocodePoint(r.data.results[1].geometry.location)),
          value |-> <<>>]
    ELSE [returns |-> FALSE, coordinates |-> collected, value |-> <<>>]

\* lines 240-255: one pass of the loop over the waypoints
GeocodeStep(collected, r) ==
    IF Geocoded(r)
    THEN [returns |-> FALSE,
          coordinates |-> Append(collected, GeocodePoint(r.data.results[1].geometry.location)),
          value |-> <<>>]
    ELSE [returns |-> TRUE, coordinates |-> collected,
          value |-> CoordinatesOnFailure(collected)]

\* lines 192-195: the loop over the legs; a leg without steps raises IndexError
RECURSIVE FlattenLegs(_, _)
FlattenLegs(legs, acc) ==
    IF legs = <<>> THEN [raised |-> FALSE, coordinates |-> acc]
    ELSE LET steps == Head(legs).steps
             starts == [j \in 1..Len(steps) |-> StepPoint(steps[j].start_location)]
         IN  IF steps = <<>> THEN [raised |-> TRUE, coordinates |-> acc]
             ELSE FlattenLegs(Tail(legs),
                              Append(acc \o starts, StepPoint(steps[Len(steps)].end_location)))

\* the directions request sent although the key verification failed
KeyVerifiedAlways(r) == TRUE

\* lines 154-165: the key verification passes on status OK only
KeyVerified(r) == r.kind = "json" /\ r.data.status = "OK"

\* lines 186-205: the coordinates of the first route, or the empty list
DirectionsCoordinates(r) ==
    IF r.kind = "json" /\ r.data.status = "OK" /\ r.data.routes # <<>>
    THEN LET flat == FlattenLegs(r.data.routes[1].legs, <<>>)
         IN  IF flat.raised THEN <<>> ELSE flat.coordinates
    ELSE <<>>

\* the comparison of line 262 made with the empty name
NamingFailedWhenEmpty(name) == name = <<>>

\* line 262: the name is the failure value
NamingFailed(name) == name = Sentinel

----------------------------------------------------------------------------
(* The calls *)

NoClean ==
    /\ text = <<>>
    /\ once = <<>>
    /\ twice = <<>>
    /\ cpc = "idle"

Call(api, arg, r) == [api |-> api, arg |-> arg, status |-> StatusOf(r), found |-> Found(r)]

GenerateCall(stage, r) ==
    [api |-> "generate_content", arg |-> stage,
     status |-> IF r.kind = "raised" THEN "raised"
                ELSE IF r.candidates = <<>> THEN "no_candidates"
                ELSE "text",
     found |-> Len(r.candidates)]

ErrorResult == [error |-> "Gemini recommendation failed"]

\* the return statement the called function ends with
Return(value) ==
    /\ result' = IF entry = "recommend_trail"
                 THEN [route_name |-> trail_name, coordinates |-> value]
                 ELSE value
    /\ pc' = "done"

\* POST /recommend: recommend_trail is called
InitRecommend ==
    /\ NoClean
    /\ entry = "recommend_trail"
    /\ pc = "name"
    /\ trail_name = <<>>
    /\ detail = <<>>
    /\ start_location = ""
    /\ response = [type |-> "unbound", candidates |-> <<>>]
    /\ waypoints = <<>>
    /\ coordinates = <<>>
    /\ result = [pending |-> TRUE]
    /\ exception = "none"
    /\ calls = <<>>
    /\ failed = FALSE
    /\ directions \in RecommendStubRoutes

\* lines 261-263
NameTrail ==
    /\ pc = "name"
    /\ \E r \in GenerateContent(NameTexts) :
        LET name == get_trail_name_from_gemini(r)
        IN  /\ trail_name' = name
            /\ calls' = Append(calls, GenerateCall("name", r))
            /\ failed' = (failed \/ r.kind = "raised" \/ r.candidates = <<>>)
            /\ IF NamingFailed(name)
               THEN result' = ErrorResult /\ pc' = "done"
               ELSE pc' = "detail" /\ UNCHANGED result
    /\ UNCHANGED <<cleanVars, entry, detail, start_location, response, waypoints,
                   coordinates, exception, directions>>

\* line 265
DescribeTrail ==
    /\ pc = "detail"
    /\ \E r \in GenerateContent(DetailTexts) :
        /\ detail' = get_trail_detail_from_gemini(r)
        /\ calls' = Append(calls, GenerateCall("detail", r))
        /\ failed' = (failed \/ get_trail_detail_from_gemini(r) = <<>>)
    /\ pc' = "reverse_geocode"
    /\ UNCHANGED <<cleanVars, entry, trail_name, start_location, response, waypoints,
                   coordinates, result, exception, directions>>

\* line 266, get_trail_waypoints_from_gemini, lines 84-100
ReverseGeocodeOrigin ==
    /\ pc = "reverse_geocode"
    /\ \E r \in ReverseGeocodeAnswers :
        /\ start_location' = ReverseGeocoded(r)
        /\ response' = BoundByGet(response, r)
        /\ calls' = Append(calls, Call("reverse_geocode", "latlng", r))
        /\ failed' = (failed \/ ~Geocoded(r))
    /\ pc' = "waypoints"
    /\ UNCHANGED <<cleanVars, entry, trail_name, detail, waypoints, coordinates,
                   result, exception, directions>>

\* get_trail_waypoints_from_gemini, lines 102-140
ProposeWaypoints ==
    /\ pc = "waypoints"
    /\ \E r \in GenerateContent(WaypointTexts) :
        LET out == WaypointsFromGeneration(response, r)
        IN  /\ response' = out.response
            /\ calls' = Append(calls, GenerateCall("waypoints", r))
            /\ failed' = (failed \/ out.value = <<>>)
            /\ IF out.exception = "none"
               THEN waypoints' = out.value /\ pc' = "geocode" /\ UNCHANGED exception
               ELSE exception' = out.exception /\ pc' = "raised" /\ UNCHANGED waypoints
    /\ UNCHANGED <<cleanVars, entry, trail_name, detail, start_location, coordinates,
                   result, directions>>

\* get_coordinates_for_waypoints, lines 228-229
CoordinatesOfNothing ==
    /\ pc = "geocode"
    /\ waypoints = <<>>
    /\ Return(<<>>)
    /\ UNCHANGED <<cleanVars, entry, trail_name, detail, start_location, response,
                   waypoints, coordinates, exception, calls, failed, directions>>

\* get_coordinates_for_waypoints, lines 232-257: one pass of the loop, and the
\* return that ends it
GeocodeWaypoint ==
    /\ pc = "geocode"
    /\ Len(coordinates) < Len(waypoints)
    /\ LET waypoint == waypoints[Len(coordinates) + 1]
       IN  \E r \in GeocodeAnswers(waypoint) :
            /\ calls' = Append(calls, Call("geocode", waypoint, r))
            /\ failed' = (failed \/ ~Geocoded(r))
            /\ LET step == GeocodeStep(coordinates, r)
               IN  /\ coordinates' = step.coordinates
                   /\ IF step.returns THEN Return(step.value)
                      ELSE IF Len(step.coordinates) = Len(waypoints)
                      THEN Return(step.coordinates)
                      ELSE UNCHANGED <<pc, result>>
    /\ UNCHANGED <<cleanVars, entry, trail_name, detail, start_location, response,
                   waypoints, exception, directions>>

NextRecommend ==
    \/ NameTrail
    \/ DescribeTrail
    \/ ReverseGeocodeOrigin
    \/ ProposeWaypoints
    \/ CoordinatesOfNothing
    \/ GeocodeWaypoint

SpecRecommend == InitRecommend /\ [][NextRecommend]_vars

\* a map helper is called with a list of labels
InitMaps ==
    /\ NoClean
    /\ entry \in {"get_coordinates_for_waypoints", "get_directions_coordinates_from_waypoints"}
    /\ pc = IF entry = "get_coordinates_for_waypoints" THEN "geocode" ELSE "verify"
    /\ trail_name = <<>>
    /\ detail = <<>>
    /\ start_location = ""
    /\ response = [type |-> "unbound", candidates |-> <<>>]
    /\ waypoints \in LabelLists
    /\ coordinates = <<>>
    /\ result = [pending |-> TRUE]
    /\ exception = "none"
    /\ calls = <<>>
    /\ failed = FALSE
    /\ directions \in IF entry = "get_coordinates_for_waypoints" THEN {<<>>} ELSE StubRoutes

\* get_directions_coordinates_from_waypoints, lines 144-145: return []
RouteTooShort ==
    /\ pc = "verify"
    /\ Len(waypoints) < 2
    /\ Return(<<>>)
    /\ UNCHANGED <<cleanVars, entry, trail_name, detail, start_location, response,
                   waypoints, coordinates, exception, calls, failed, directions>>

\* get_directions_coordinates_from_waypoints, lines 147-165
VerifyKey ==
    /\ pc = "verify"
    /\ Len(waypoints) >= 2
    /\ \E r \in GeocodeAnswers(KeyCheckAddress) :
        /\ calls' = Append(calls, Call("geocode", KeyCheckAddress, r))
        /\ failed' = (failed \/ ~KeyVerified(r))
        /\ IF KeyVerified(r)
           THEN pc' = "directions" /\ UNCHANGED result
           ELSE Return(<<>>)
    /\ UNCHANGED <<cleanVars, entry, trail_name, detail, start_location, response,
                   waypoints, coordinates, exception, directions>>

\* get_directions_coordinates_from_waypoints, lines 167-205
RequestDirections ==
    /\ pc = "directions"
    /\ \E r \in DirectionsAnswers(directions) :
        /\ calls' = Append(calls,
                           Call("directions",
                                [origin |-> waypoints[1],
                                 destination |-> waypoints[Len(waypoints)],
                                 waypoints |-> SubSeq(waypoints, 2, Len(waypoints) - 1)],
                                r))
        /\ failed' = (failed \/ ~(r.kind = "json" /\ r.data.status = "OK"))
        /\ Return(DirectionsCoordinates(r))
    /\ UNCHANGED <<cleanVars, entry, trail_name, detail, start_location, response,
                   waypoints, coordinates, exception, directions>>

NextMaps ==
    \/ RouteTooShort
    \/ VerifyKey
    \/ RequestDirections
    \/ CoordinatesOfNothing
    \/ GeocodeWaypoint

SpecMaps == InitMaps /\ [][NextMaps]_vars

----------------------------------------------------------------------------
(* recommend_trail *)

Recommending == entry = "recommend_trail"

\* the naming stage has run and did not return the failure value
NamingSucceeded == Recommending /\ pc # "name" /\ trail_name # Sentinel

IsTrailResult(res) == DOMAIN res = {"route_name", "coordinates"}

IsErrorResult(res) == DOMAIN res = {"error"}

\* the point get_coordinates_for_waypoints owes for a label
PointOf(label) == <<Location(label).lng, Location(label).lat>>

\* the steps of all the legs of a route
RECURSIVE StepCount(_)
StepCount(legs) ==
    IF legs = <<>> THEN 0 ELSE Len(Head(legs).steps) + StepCount(Tail(legs))

\* C1: once naming has returned the failure value, recommend_trail has returned
\* the error result and the naming call is the only provider call of the request;
\* no detail, reverse-geocoding, waypoint or geocoding call is ever issued.
C1_SentinelAborts ==
    (Recommending /\ pc # "name" /\ trail_name = Sentinel) =>
        /\ pc = "done"
        /\ result = ErrorResult
        /\ IsErrorResult(result)
        /\ Len(calls) = 1
        /\ calls[1].api = "generate_content"
        /\ calls[1].arg = "name"

\* the failure value came out of the provider's own text
C1_Witness ==
    /\ Recommending
    /\ pc = "done"
    /\ trail_name = Sentinel
    /\ calls[1].status = "text"
    /\ result = ErrorResult

\* C2: when naming succeeds, recommend_trail never raises and never returns the
\* error shape, whatever the later provider calls do: it ends with a result
\* {route_name, coordinates}.
C2_AsClaimed ==
    NamingSucceeded =>
        /\ pc # "raised"
        /\ exception = "none"
        /\ pc = "done" => IsTrailResult(result)

\* C3: when naming succeeds, the request ends with a result whose route_name is
\* the naming stage's output verbatim, and that name is not empty.
C3_AsClaimed ==
    (NamingSucceeded /\ pc \in {"done", "raised"}) =>
        /\ pc = "done"
        /\ IsTrailResult(result)
        /\ result.route_name = trail_name
        /\ result.route_name # <<>>

\* the request returned and every provider call answered as asked: a name that is
\* not blank, a detail object, an address, a waypoint list, a position per label
AllSucceeded == NamingSucceeded /\ trail_name # <<>> /\ pc = "done" /\ ~failed

\* C4 as amended: with every provider call succeeding, the coordinates are the
\* geocoded points of the waypoint labels, one (lng, lat) pair per label in the
\* labels' order; no directions request is issued.
C4_OnePointPerLabel ==
    AllSucceeded =>
        /\ IsTrailResult(result)
        /\ Len(result.coordinates) = Len(waypoints)
        /\ \A k \in 1..Len(waypoints) : result.coordinates[k] = PointOf(waypoints[k])
        /\ \A k \in 1..Len(calls) : calls[k].api # "directions"

C4_Witness ==
    /\ AllSucceeded
    /\ Len(result.coordinates) = MaxWaypoints
    /\ Len(result.coordinates) # StepCount(directions)

\* C4 as claimed: with every provider call succeeding, the coordinates are as
\* many as the steps of the stubbed directions route.
C4_AsClaimed ==
    AllSucceeded => Len(result.coordinates) = StepCount(directions)

\* the call the request issues in k-th place
IsCallOfStage(call, k) ==
    IF k = 1 THEN call.api = "generate_content" /\ call.arg = "name"
    ELSE IF k = 2 THEN call.api = "generate_content" /\ call.arg = "detail"
    ELSE IF k = 3 THEN call.api = "reverse_geocode"
    ELSE IF k = 4 THEN call.api = "generate_content" /\ call.arg = "waypoints"
    ELSE /\ call.api = "geocode"
         /\ k - 4 <= Len(waypoints)
         /\ call.arg = waypoints[k - 4]

CallsInOrder == \A k \in 1..Len(calls) : IsCallOfStage(calls[k], k)

\* C10 as amended: the provider calls of a request are issued one after the
\* other, each once: the naming call, the detail call, the reverse-geocoding
\* call, the waypoint generation call, then one forward-geocoding call per
\* waypoint label in order, none after a failed one, none at all for an empty
\* waypoint list; a request that returned after naming succeeded has issued the
\* first four.
C10_InOrderOnce ==
    Recommending =>
        /\ CallsInOrder
        /\ Len(calls) <= 4 + Len(waypoints)
        /\ \A k \in 5..(Len(calls) - 1) : calls[k].status = "OK" /\ calls[k].found > 0
        /\ (NamingSucceeded /\ pc = "done") => Len(calls) >= 4

\* a request that ends without any forward-geocoding call
C10_Witness ==
    /\ NamingSucceeded
    /\ pc = "done"
    /\ CallsInOrder
    /\ Len(calls) = 4
    /\ calls[4].status = "text"
    /\ result.coordinates = <<>>

\* C10 as claimed: a request whose naming succeeded has issued, in order and once
\* each, the naming, detail, reverse-geocoding and waypoint calls and then one or
\* more forward-geocoding or directions calls.
C10_AsClaimed ==
    (NamingSucceeded /\ pc = "done") =>
        /\ CallsInOrder
        /\ \E k \in 1..Len(calls) : calls[k].api \in {"geocode", "directions"}

----------------------------------------------------------------------------
(* The map helpers *)

Routing == entry = "get_directions_coordinates_from_waypoints"

Geocoding == entry = "get_coordinates_for_waypoints"

\* C7: the directions request is issued only as the second call, for a list of
\* at least 2 waypoints, after the key verification request returned status OK;
\* fewer than 2 waypoints return the empty list with no call at all, and a failed
\* key verification returns the empty list with no directions call.
C7_DirectionsAfterKeyCheck ==
    Routing =>
        /\ \A k \in 1..Len(calls) :
            calls[k].api = "directions" =>
                /\ k = 2
                /\ Len(waypoints) >= 2
                /\ calls[1].api = "geocode"
                /\ calls[1].arg = KeyCheckAddress
                /\ calls[1].status = "OK"
        /\ Len(waypoints) < 2 => calls = <<>> /\ (pc = "done" => result = <<>>)
        /\ (Len(calls) >= 1 /\ calls[1].status # "OK") =>
                pc = "done" /\ result = <<>> /\ Len(calls) = 1

C7_Witness ==
    /\ Routing
    /\ pc = "done"
    /\ Len(waypoints) >= 2
    /\ Len(calls) = 1
    /\ calls[1].status = "REQUEST_DENIED"
    /\ result = <<>>

\* the directions request was answered with status OK and a route
RouteAnswered ==
    /\ Routing
    /\ pc = "done"
    /\ Len(calls) = 2
    /\ calls[2].status = "OK"
    /\ calls[2].found > 0

\* the coordinates owed for the legs before leg i
RECURSIVE Offset(_, _)
Offset(legs, i) ==
    IF i <= 1 THEN 0 ELSE Offset(legs, i - 1) + Len(legs[i - 1].steps) + 1

\* res holds, for each leg in order, the start of every step and then the end of
\* the last step, as (lng, lat)
HoldsLegs(res, legs) ==
    /\ Len(res) = Offset(legs, Len(legs) + 1)
    /\ \A i \in 1..Len(legs) :
        LET steps == legs[i].steps
        IN  /\ \A j \in 1..Len(steps) :
                res[Offset(legs, i) + j] =
                    <<steps[j].start_location.lng, steps[j].start_location.lat>>
            /\ steps # <<>> =>
                res[Offset(legs, i) + Len(steps) + 1] =
                    <<steps[Len(steps)].end_location.lng, steps[Len(steps)].end_location.lat>>

EveryLegHasSteps(legs) == \A i \in 1..Len(legs) : legs[i].steps # <<>>

\* C8 as amended: on a status-OK answer whose route's legs all have at least one
\* step, the result holds, leg by leg, the start of every step and then the end
\* of the leg's last step, as (lng, lat): sum(n_i + 1) coordinates, 6 for 2 legs
\* of 2 steps. A leg without steps makes the result empty.
C8_LegsFlattened ==
    RouteAnswered =>
        /\ EveryLegHasSteps(directions) => HoldsLegs(result, directions)
        /\ ~EveryLegHasSteps(directions) => result = <<>>
        /\ directions = StubLegs(<<2, 2>>) => Len(result) = 6

C8_Witness ==
    /\ RouteAnswered
    /\ Len(directions) = MaxLegs
    /\ \A i \in 1..Len(directions) : Len(directions[i].steps) = MaxSteps
    /\ Len(result) = MaxLegs * (MaxSteps + 1)

\* C8 as claimed: on a status-OK answer with a route, the result holds sum(n_i + 1)
\* coordinates, whatever the n_i are.
C8_AsClaimed ==
    RouteAnswered => HoldsLegs(result, directions)

CallSucceeded(call) == call.status = "OK" /\ call.found > 0

\* C9: get_coordinates_for_waypoints returns the empty list or one (lng, lat)
\* point per label in the labels' order; the requests go out label by label, none
\* after a failed one, and a failed request makes the result empty.
C9_AllOrNothing ==
    Geocoding =>
        /\ Len(calls) <= Len(waypoints)
        /\ \A k \in 1..Len(calls) :
            /\ calls[k].api = "geocode"
            /\ calls[k].arg = waypoints[k]
            /\ k < Len(calls) => CallSucceeded(calls[k])
        /\ pc = "done" =>
            /\ \/ result = <<>>
               \/ /\ Len(result) = Len(waypoints)
                  /\ \A k \in 1..Len(waypoints) : result[k] = PointOf(waypoints[k])
            /\ (\E k \in 1..Len(calls) : ~CallSucceeded(calls[k])) => result = <<>>
            /\ (\A k \in 1..Len(calls) : CallSucceeded(calls[k])) =>
                    Len(result) = Len(waypoints)

\* the 2nd of 3 labels fails
C9_Witness ==
    /\ Geocoding
    /\ pc = "done"
    /\ Len(waypoints) = 3
    /\ Len(calls) = 2
    /\ CallSucceeded(calls[1])
    /\ ~CallSucceeded(calls[2])
    /\ Len(coordinates) = 1
    /\ result = <<>>

====
